---- MODULE Spec2Model ----
(***************************************************************************)
(* A model of the RobloxPatcher patch engine: the byte editor              *)
(* (bytes.replace, replace_in_binary), the backup routines, the seven      *)
(* patchers of src/patchers and the patch run of the GUI's patch panel.    *)
(*                                                                         *)
(* A file's content is a sequence of bytes (0..255); a Python str is a     *)
(* sequence of code points, turned into bytes by Encode (UTF-8).           *)
(***************************************************************************)
EXTENDS Integers, Sequences, FiniteSets, TLC

VARIABLES
    rbFile,      \* replace_in_binary: the file's bytes
    rbSearch,    \* replace_in_binary: the search pattern (bytes)
    rbReplace,   \* replace_in_binary: the replacement (bytes)
    rbFirst,     \* the file's bytes before the first call
    rbCalls,     \* number of replace_in_binary calls made so far
    rbRet,       \* the return values of the calls, in order
    client,      \* the target binary at config.client_path: [exists, data]
    backup,      \* its '.backup' sibling: [exists, data]
    sidecar,     \* AppSettings.xml next to the target
    cfg,         \* the PatchConfig the patchers read
    ap,          \* the apply() call in flight: its position and locals
    last,        \* history: the last finished call, its result and the
                 \* files as they were when it was called
    orig,        \* history: the target as it was before any call
    bkFirst,     \* history: the target as the first backup call found it
    run,         \* the patch panel's background thread: position and locals
    button,      \* the state of the panel's Apply button
    log,         \* the status messages of the current run, in order
    dl,          \* the deploy downloader: the log fetched and the call made
    det,         \* detect_client_type: the file and the type returned
    rt,          \* PatchConfig: a configuration and its round trip
    mp,          \* ModernPatcher(): the domain passed and the outcome
    rc,          \* AppConfig.recent_configs and the path added last
    pn           \* the patch panel: its checkboxes and the config it edits

rbVars == <<rbFile, rbSearch, rbReplace, rbFirst, rbCalls, rbRet>>

fsVars == <<client, backup, sidecar>>

callVars == <<ap, last, orig>>

guiVars == <<run, button, log>>

objVars == <<mp, rc, pn>>

fnVars == <<dl, det, rt, objVars>>

vars == <<rbFile, rbSearch, rbReplace, rbFirst, rbCalls, rbRet,
          client, backup, sidecar, cfg, ap, last, orig, bkFirst, run, button, log,
          dl, det, rt, mp, rc, pn>>

----------------------------------------------------------------------------
(* Bounds of the model *)

\* longest file content drawn for replace_in_binary
MaxContentLen == 4

\* longest search pattern / replacement drawn for replace_in_binary
MaxPatLen == 2

\* number of replace_in_binary calls made on one file
MaxCalls == 2

\* longest target content drawn for the backup routines
MaxBackupLen == 2

\* most patches selected for one patch run
MaxSelected == 3

\* patch runs started in one session of the GUI
MaxRuns == 2

----------------------------------------------------------------------------
(* Byte strings *)

\* the bytes the drawn contents and patterns are made of ('a', 'b', 'c')
RbAlphabet == {97, 98, 99}

SeqsUpTo(S, n) == UNION {[1..k -> S] : k \in 0..n}

\* b[i:] of Python, i counted from 1
Drop(s, i) == SubSeq(s, i, Len(s))

\* s[i:i+Len(p)] == p
MatchAt(s, p, i) == /\ i >= 1
                    /\ i + Len(p) - 1 <= Len(s)
                    /\ \A j \in 1..Len(p) : s[i + j - 1] = p[j]

\* bytes.find(p, from): the least index >= from where p occurs, 0 when none
RECURSIVE Find(_, _, _)
Find(s, p, from) ==
    IF from + Len(p) - 1 > Len(s) THEN 0
    ELSE IF MatchAt(s, p, from) THEN from
    ELSE Find(s, p, from + 1)

\* `p in s` of Python
Contains(s, p) == Find(s, p, 1) # 0

\* number of positions where p occurs in s (overlapping occurrences counted)
Occurrences(s, p) == Cardinality({i \in 1..Len(s) : MatchAt(s, p, i)})

\* bytes.replace for an empty pattern: the replacement before every byte and
\* at the end
RECURSIVE Interleave(_, _)
Interleave(s, new) ==
    IF s = <<>> THEN new
    ELSE new \o <<Head(s)>> \o Interleave(Tail(s), new)

\* bytes.replace for a non-empty pattern: leftmost occurrences, left to
\* right, never overlapping, the scan resuming after each replaced occurrence
\* mutant: only the first occurrence is replaced (bytes.replace(old, new, 1))
ReplaceFirstOnly(s, old, new) ==
    LET i == Find(s, old, 1)
    IN  IF i = 0 THEN s
        ELSE SubSeq(s, 1, i - 1) \o new \o Drop(s, i + Len(old))

RECURSIVE ReplaceFrom(_, _, _)
ReplaceFrom(s, old, new) ==
    LET i == Find(s, old, 1)
    IN  IF i = 0 THEN s
        ELSE SubSeq(s, 1, i - 1) \o new \o ReplaceFrom(Drop(s, i + Len(old)), old, new)

BytesReplace(s, old, new) ==
    IF old = <<>> THEN Interleave(s, new) ELSE ReplaceFrom(s, old, new)

----------------------------------------------------------------------------
(* Python str and its encoding *)

\* one code point as UTF-8, what str.encode() produces for it
Utf8(cp) ==
    IF cp < 128 THEN <<cp>>
    ELSE IF cp < 2048 THEN <<192 + (cp \div 64), 128 + (cp % 64)>>
    ELSE IF cp < 65536
         THEN <<224 + (cp \div 4096), 128 + ((cp \div 64) % 64), 128 + (cp % 64)>>
    ELSE <<240 + (cp \div 262144), 128 + ((cp \div 4096) % 64),
           128 + ((cp \div 64) % 64), 128 + (cp % 64)>>

\* str.encode(): the code points' UTF-8 forms, concatenated
RECURSIVE Encode(_)
Encode(str) == IF str = <<>> THEN <<>> ELSE Utf8(Head(str)) \o Encode(Tail(str))

\* the characters str.strip() removes
Whitespace == (9..13) \cup (28..32) \cup {133, 160}

RECURSIVE LStrip(_)
LStrip(str) ==
    IF str # <<>> /\ Head(str) \in Whitespace THEN LStrip(Tail(str)) ELSE str

RECURSIVE RStrip(_)
RStrip(str) ==
    IF str # <<>> /\ str[Len(str)] \in Whitespace
    THEN RStrip(SubSeq(str, 1, Len(str) - 1)) ELSE str

Strip(str) == RStrip(LStrip(str))

----------------------------------------------------------------------------
(* Literals of the patchers *)

\* b'roblox.com'
ROBLOX_COM == <<114, 111, 98, 108, 111, 120, 46, 99, 111, 109>>

\* b'BGIAA', the fixed prefix of the key-blob pattern
KEY_PREFIX == <<66, 71, 73, 65, 65>>

\* [A-Za-z0-9+/=]
Base64Chars == (65..90) \cup (97..122) \cup (48..57) \cup {43, 47, 61}

\* 'http://www.'
HTTP_WWW == <<104, 116, 116, 112, 58, 47, 47, 119, 119, 119, 46>>

\* the length WebsitePatcher.validate requires of the domain
DomainLen == 10

PatchTypes == {"WEBSITE", "PUBLIC_KEY", "BLOCKING", "INVALID_REQUEST",
               "TRUST_CHECK", "RATNET_KEY", "HTML_SERVICE"}

ClientTypes == {"PLAYER", "STUDIO", "RCC_SERVICE"}

----------------------------------------------------------------------------
(* The inputs the model draws *)

\* 'mysite.xyz': 10 characters, 10 bytes
DomainAscii == <<109, 121, 115, 105, 116, 101, 46, 120, 121, 122>>

\* 'münich.com': 10 characters, 11 bytes once encoded
DomainNonAscii == <<109, 252, 110, 105, 99, 104, 46, 99, 111, 109>>

\* 'localhost': 9 characters
DomainShort == <<108, 111, 99, 97, 108, 104, 111, 115, 116>>

Domains == {DomainAscii, DomainNonAscii, DomainShort}

\* a key blob 'BGIAAxy' and a shorter one, 'BGIAAx'
Blob1 == KEY_PREFIX \o <<120, 121>>
Blob2 == KEY_PREFIX \o <<120>>

\* a client that holds the host name twice and no key blob
ContentHosts == ROBLOX_COM \o <<0>> \o ROBLOX_COM

\* a client that holds two key blobs and no host name
ContentKeys == Blob1 \o <<0>> \o Blob2

\* a client that holds the host name twice and two key blobs
Content3 == ROBLOX_COM \o <<0>> \o Blob1 \o <<0>> \o ROBLOX_COM \o <<0>> \o Blob2

\* a client in which the host name follows its own first nine bytes:
\* b'roblox.coroblox.com'
ContentOverlap == SubSeq(ROBLOX_COM, 1, 9) \o ROBLOX_COM

\* a client whose first key blob is the beginning of its second:
\* b'BGIAAx\x00BGIAAxy'
ContentKeysNested == Blob2 \o <<0>> \o Blob1

\* the clients the patchers are called on one by one
ClientContents == {ContentHosts, ContentKeys, ContentOverlap, ContentKeysNested}

\* PublicKeyBlob.txt as KeyGenerator.exe leaves it: 'BgIAAzz\n' (a key as
\* long as Blob1) and 'BgIAAzzzz\n' (a longer one)
KeyFile1 == <<66, 103, 73, 65, 65, 122, 122, 10>>
KeyFile2 == <<66, 103, 73, 65, 65, 122, 122, 122, 122, 10>>

KeyFiles == {KeyFile1, KeyFile2}

\* config.x64dbg_path: unset, an existing file, a file that is not there, a
\* path whose stat() raises (a name too long, a directory without access)
X64dbgPaths == {"", "x64dbg.exe", "gone.exe", "unstatable"}

\* config.rbxsigtools_path: unset, a directory holding KeyGenerator.exe, a
\* directory that is not there, a directory without KeyGenerator.exe, a path
\* whose stat() raises
RbxSigToolsPaths == {"", "RbxSigTools", "gone", "nokeygen", "unstatable"}

Years == {2008, 2010}

\* the client types drawn: no patcher tells STUDIO from PLAYER
ClientTypesDrawn == {c \in ClientTypes : c # "STUDIO"}

----------------------------------------------------------------------------
(* The file system *)

NoFile == [exists |-> FALSE, data |-> <<>>]

File(bytes) == [exists |-> TRUE, data |-> bytes]

\* Path.exists(): "yes", "no", or "raise" when stat() fails with an error
\* pathlib does not swallow
PathExists(p) ==
    IF p \in {"x64dbg.exe", "RbxSigTools", "nokeygen"} THEN "yes"
    ELSE IF p = "unstatable" THEN "raise"
    ELSE "no"

\* (rbxsigtools_path / "KeyGenerator.exe").exists()
KeyGenExists(p) == IF p = "RbxSigTools" THEN "yes" ELSE "no"

\* AppSettings.xml: absent, a well-formed document (with or without a
\* BaseUrl element, other elements kept in `others`), or a file ET.parse
\* rejects
NoSidecar == [exists |-> FALSE, wellformed |-> FALSE, hasBaseUrl |-> FALSE,
              baseUrl |-> <<>>, others |-> {}]

OldSidecar == [exists |-> TRUE, wellformed |-> TRUE, hasBaseUrl |-> TRUE,
               baseUrl |-> HTTP_WWW \o ROBLOX_COM, others |-> {"ContentFolder", "Extra"}]

BadSidecar == [exists |-> TRUE, wellformed |-> FALSE, hasBaseUrl |-> FALSE,
               baseUrl |-> <<>>, others |-> {}]

Sidecars == {NoSidecar, OldSidecar, BadSidecar}

----------------------------------------------------------------------------
(* ModernPatcher.replace_in_binary *)

\* mutant: the length check is missing
ReplaceInBinaryUnchecked(content, search, replace) ==
    IF ~Contains(content, search) THEN [ret |-> FALSE, file |-> content]
    ELSE [ret |-> TRUE, file |-> BytesReplace(content, search, replace)]

\* the outcome of one call on a file holding `content`: ret is the returned
\* bool, file the file's bytes afterwards
ReplaceInBinary(content, search, replace) ==
    IF Len(search) # Len(replace) THEN [ret |-> FALSE, file |-> content]
    ELSE IF ~Contains(content, search) THEN [ret |-> FALSE, file |-> content]
    ELSE [ret |-> TRUE, file |-> BytesReplace(content, search, replace)]

RbInit ==
    /\ rbFile \in SeqsUpTo(RbAlphabet, MaxContentLen)
    /\ rbSearch \in SeqsUpTo(RbAlphabet, MaxPatLen)
    /\ rbReplace \in SeqsUpTo(RbAlphabet, MaxPatLen)
    /\ rbFirst = rbFile
    /\ rbCalls = 0
    /\ rbRet = <<>>
    /\ client = [exists |-> FALSE, data |-> <<>>]
    /\ backup = client
    /\ sidecar = [exists |-> FALSE]
    /\ cfg = [patches |-> {}]
    /\ ap = [pc |-> "idle"]
    /\ last = [op |-> "none"]
    /\ orig = client
    /\ bkFirst = client
    /\ run = [pc |-> "idle"]
    /\ button = "normal"
    /\ log = <<>>
    /\ dl = "unused"
    /\ det = "unused"
    /\ rt = "unused"
    /\ mp = "unused"
    /\ rc = "unused"
    /\ pn = "unused"

\* the caller repeats the call with the same arguments
RbCall ==
    /\ rbCalls < MaxCalls
    /\ LET r == ReplaceInBinary(rbFile, rbSearch, rbReplace)
       IN  /\ rbFile' = r.file
           /\ rbRet' = Append(rbRet, r.ret)
    /\ rbCalls' = rbCalls + 1
    /\ UNCHANGED <<rbSearch, rbReplace, rbFirst, fsVars, cfg, callVars, bkFirst, guiVars,
                 fnVars>>

RbNext == RbCall

SpecReplace == RbInit /\ [][RbNext]_vars

----------------------------------------------------------------------------
(* BasePatcher: backup_client and restore_from_backup *)

\* how a shutil.copy2 call can end: "ok", the destination holds the source's
\* bytes; "refused", it raises before the destination is opened and leaves
\* it as it was; "cut", it raises while writing (the disk is full) and leaves
\* a destination that holds only the first bytes of the source
CopyOutcomes == {"ok", "refused", "cut"}

\* what a copy that was cut short leaves of the bytes it was copying
Cut(bytes) == SubSeq(bytes, 1, Len(bytes) \div 2)

\* shutil.copy2(src, dst) ending as `copy` says: ok is whether it returned,
\* file is dst afterwards
Copy2(src, dst, copy) ==
    IF copy = "ok" THEN [ok |-> TRUE, file |-> File(src.data)]
    ELSE IF copy = "cut" THEN [ok |-> FALSE, file |-> File(Cut(src.data))]
    ELSE [ok |-> FALSE, file |-> dst]

\* mutant: a failed copy is not noticed
BackupClientUnnoticed(cl, bk, copy) ==
    IF ~cl.exists THEN [ok |-> FALSE, backup |-> bk]
    ELSE IF ~bk.exists THEN [ok |-> TRUE, backup |-> Copy2(cl, bk, copy).file]
    ELSE [ok |-> TRUE, backup |-> bk]

\* backup_client(): ok is whether a path (not None) is returned
BackupClient(cl, bk, copy) ==
    IF ~cl.exists THEN [ok |-> FALSE, backup |-> bk]
    ELSE IF ~bk.exists
         THEN [ok |-> Copy2(cl, bk, copy).ok, backup |-> Copy2(cl, bk, copy).file]
    ELSE [ok |-> TRUE, backup |-> bk]

\* restore_from_backup() and MainWindow._restore_backup: the backup copied
\* over the target
RestoreFromBackup(cl, bk, copy) ==
    IF ~bk.exists THEN [ok |-> FALSE, client |-> cl]
    ELSE [ok |-> Copy2(bk, cl, copy).ok, client |-> Copy2(bk, cl, copy).file]

----------------------------------------------------------------------------
(* validate() of the seven patchers: "true", "false", or "raise" when a   *)
(* Path.exists() call raises                                               *)

\* the x64dbg_path checks shared by the five debugger patchers
ValidateX64dbg(c) ==
    IF c.x64dbg_path = "" THEN "false"
    ELSE IF PathExists(c.x64dbg_path) = "raise" THEN "raise"
    ELSE IF PathExists(c.x64dbg_path) = "no" THEN "false"
    ELSE "true"

ValidateWebsite(c, cl) ==
    IF ~cl.exists THEN "false"
    ELSE IF Len(c.website_domain) # DomainLen THEN "false"
    ELSE "true"

ValidatePublicKey(c, cl) ==
    IF ~cl.exists THEN "false"
    ELSE IF c.rbxsigtools_path = "" THEN "false"
    ELSE IF PathExists(c.rbxsigtools_path) = "raise" THEN "raise"
    ELSE IF PathExists(c.rbxsigtools_path) = "no" THEN "false"
    ELSE IF KeyGenExists(c.rbxsigtools_path) = "no" THEN "false"
    ELSE "true"

\* BlockingPatcher, InvalidRequestPatcher and TrustCheckPatcher alike
ValidateDebugger(c, cl) ==
    IF ~cl.exists THEN "false" ELSE ValidateX64dbg(c)

\* mutant: the client type is not looked at
ValidateRatnetKeyAnyClient(c, cl) ==
    IF ~cl.exists THEN "false" ELSE ValidateX64dbg(c)

ValidateRatnetKey(c, cl) ==
    IF ~cl.exists THEN "false"
    ELSE IF c.client_type # "RCC_SERVICE" THEN "false"
    ELSE ValidateX64dbg(c)

ValidateHtmlService(c, cl) ==
    IF ~cl.exists THEN "false"
    ELSE IF c.version_year # 2008 THEN "false"
    ELSE ValidateX64dbg(c)

Validate(k, c, cl) ==
    CASE k = "WEBSITE"      -> ValidateWebsite(c, cl)
      [] k = "PUBLIC_KEY"   -> ValidatePublicKey(c, cl)
      [] k = "RATNET_KEY"   -> ValidateRatnetKey(c, cl)
      [] k = "HTML_SERVICE" -> ValidateHtmlService(c, cl)
      [] OTHER              -> ValidateDebugger(c, cl)

----------------------------------------------------------------------------
(* PublicKeyPatcher: the key-blob search and the replacement loop *)

\* the index of the last byte of the run of base64 characters that holds i
RECURSIVE RunEnd(_, _)
RunEnd(s, i) ==
    IF i + 1 <= Len(s) /\ s[i + 1] \in Base64Chars THEN RunEnd(s, i + 1) ELSE i

\* re.compile(b'BGIAA[A-Za-z0-9+/=]+').findall(s), scanning from index i:
\* leftmost matches, each as long as it can be, none overlapping
RECURSIVE FindAllFrom(_, _)
FindAllFrom(s, i) ==
    IF i > Len(s) THEN <<>>
    ELSE IF /\ MatchAt(s, KEY_PREFIX, i)
            /\ i + Len(KEY_PREFIX) <= Len(s)
            /\ s[i + Len(KEY_PREFIX)] \in Base64Chars
         THEN LET j == RunEnd(s, i + Len(KEY_PREFIX))
              IN  <<SubSeq(s, i, j)>> \o FindAllFrom(s, j + 1)
    ELSE FindAllFrom(s, i + 1)

FindAllKeys(s) == FindAllFrom(s, 1)

\* for old_key in matches: content = content.replace(old_key, new_key)
RECURSIVE ReplaceEach(_, _, _)
ReplaceEach(content, matches, newKey) ==
    IF matches = <<>> THEN content
    ELSE ReplaceEach(BytesReplace(content, Head(matches), newKey), Tail(matches), newKey)

----------------------------------------------------------------------------
(* WebsitePatcher._update_app_settings *)

\* ok is FALSE when the call raises: open(..., 'w') of a new file failing
\* (writeOk) is not caught; a parse error of an existing file is caught and
\* logged, the file left as it is
UpdateAppSettings(sc, c, writeOk) ==
    IF ~sc.exists
    THEN IF writeOk
         THEN [ok |-> TRUE,
               sidecar |-> [exists |-> TRUE, wellformed |-> TRUE, hasBaseUrl |-> TRUE,
                            baseUrl |-> HTTP_WWW \o c.website_domain,
                            others |-> {"ContentFolder"}]]
         ELSE [ok |-> FALSE, sidecar |-> sc]
    ELSE IF ~sc.wellformed \/ ~writeOk THEN [ok |-> TRUE, sidecar |-> sc]
    ELSE [ok |-> TRUE,
          sidecar |-> [sc EXCEPT !.hasBaseUrl = TRUE,
                                 !.baseUrl = HTTP_WWW \o c.website_domain]]

----------------------------------------------------------------------------
(* apply() of the seven patchers, in two steps: ApplyStart runs the call up *)
(* to open(client_path, 'wb'), which truncates the target; ApplyWrite is    *)
(* file.write and what follows it.                                          *)

\* what the environment decides during one apply(): how shutil.copy2 ends,
\* whether open(client_path, 'wb') goes through, KeyGenerator.exe's exit
\* code and the PublicKeyBlob.txt found afterwards
Envs == [copy : CopyOutcomes, openOk : BOOLEAN, rc : {0, 1},
         keyFile : {NoFile} \cup {File(f) : f \in KeyFiles}]

\* the same, without the choices apply() never gets to look at: it returns
\* at the first step that fails
EnvsInOrder ==
    {e \in Envs :
        /\ e.copy # "ok" => e.rc = 0 /\ e.keyFile = NoFile /\ e.openOk
        /\ e.rc # 0 => e.keyFile = NoFile /\ e.openOk}

\* PublicKeyPatcher.apply(): no target is opened without a key
EnvsPublicKey == {e \in EnvsInOrder : e.keyFile = NoFile => e.openOk}

\* WebsitePatcher.apply() runs no KeyGenerator.exe
EnvsWebsite == {e \in EnvsInOrder : e.rc = 0 /\ e.keyFile = NoFile}

\* the other five open no target either
EnvsManual == {e \in EnvsWebsite : e.openOk}

EnvsFor(k) ==
    IF k = "PUBLIC_KEY" THEN EnvsPublicKey
    ELSE IF k = "WEBSITE" THEN EnvsWebsite
    ELSE EnvsManual

\* the bytes apply() is about to write: res "write" with them in data, or
\* res "false" when apply() returns False before writing
WebsiteContent(c, cl) ==
    [res |-> "write", data |-> BytesReplace(cl.data, ROBLOX_COM, Encode(c.website_domain))]

PublicKeyContent(cl, e) ==
    IF e.rc # 0 THEN [res |-> "false", data |-> <<>>]
    ELSE IF ~e.keyFile.exists THEN [res |-> "false", data |-> <<>>]
    ELSE IF FindAllKeys(cl.data) = <<>> THEN [res |-> "false", data |-> <<>>]
    ELSE [res |-> "write",
          data |-> ReplaceEach(cl.data, FindAllKeys(cl.data), Encode(Strip(e.keyFile.data)))]

\* mutant: apply() goes on whatever validate() returned
ValidationGateOpen(v) == TRUE

\* whether apply() goes on after its validate() call
ValidationGate(v) == v = "true"

\* res: "raise" (validate() raised: apply() has no handler around it),
\* "false" / "true" (the value returned), or "opened" (the target is open for
\* writing and truncated, data waits to be written)
ApplyStart(k, c, cl, bk, e) ==
    LET v == Validate(k, c, cl)
        b == BackupClient(cl, bk, e.copy)
        w == IF k = "WEBSITE" THEN WebsiteContent(c, cl) ELSE PublicKeyContent(cl, e)
    IN  IF v = "raise" THEN [res |-> "raise", backup |-> bk, data |-> <<>>]
        ELSE IF ~ValidationGate(v) THEN [res |-> "false", backup |-> bk, data |-> <<>>]
        ELSE IF ~b.ok THEN [res |-> "false", backup |-> b.backup, data |-> <<>>]
        ELSE IF k \notin {"WEBSITE", "PUBLIC_KEY"}
             THEN [res |-> "true", backup |-> b.backup, data |-> <<>>]
        ELSE IF w.res = "false" THEN [res |-> "false", backup |-> b.backup, data |-> <<>>]
        ELSE IF ~e.openOk THEN [res |-> "false", backup |-> b.backup, data |-> <<>>]
        ELSE [res |-> "opened", backup |-> b.backup, data |-> w.data]

\* the file after `data` is written at offset 0 of a file holding `cur`
\* (empty unless somebody wrote to the file since it was truncated)
WriteAtStart(data, cur) ==
    IF Len(cur) > Len(data) THEN data \o SubSeq(cur, Len(data) + 1, Len(cur)) ELSE data

\* file.write(data) and the rest of apply(): ret is the value returned.
\* writeOk: the write goes through (a failing write leaves the file as it
\* is, truncated); scOk: AppSettings.xml can be written
ApplyWrite(k, c, cl, sc, data, writeOk, scOk) ==
    LET u == UpdateAppSettings(sc, c, scOk)
        written == File(WriteAtStart(data, cl.data))
    IN  IF ~writeOk THEN [ret |-> FALSE, client |-> cl, sidecar |-> sc]
        ELSE IF k = "WEBSITE"
             THEN [ret |-> u.ok, client |-> written, sidecar |-> u.sidecar]
        ELSE [ret |-> TRUE, client |-> written, sidecar |-> sc]

----------------------------------------------------------------------------
(* The patchers called one call after another on one target *)

\* the configurations the patchers are built with. Only RatnetKey reads
\* client_type and only HtmlService reads version_year: the two are drawn
\* together, an RCCService of 2008 or a player of 2010
Configs ==
    {c \in [client_path : {"client.exe"}, website_domain : Domains,
            version_year : Years, client_type : ClientTypesDrawn, patches : {{}},
            rbxsigtools_path : RbxSigToolsPaths, x64dbg_path : X64dbgPaths] :
        (c.version_year = 2008) <=> (c.client_type = "RCC_SERVICE")}

Snapshot(cl, bk, sc) == [client |-> cl, backup |-> bk, sidecar |-> sc]

NoSnapshot == Snapshot(NoFile, NoFile, NoSidecar)

ApIdle == [pc |-> "idle", kind |-> "none", data |-> <<>>, pre |-> NoSnapshot]

NoCall == [op |-> "none", kind |-> "none", valid |-> "none", ret |-> FALSE,
           raised |-> FALSE, pre |-> NoSnapshot, post |-> <<>>]

\* the downloader, the detector and the configuration round trip not used
ObjIdle == mp = "unused" /\ rc = "unused" /\ pn = "unused"

FnIdle == dl = "unused" /\ det = "unused" /\ rt = "unused" /\ ObjIdle

RbIdle ==
    /\ rbFile = <<>>
    /\ rbSearch = <<>>
    /\ rbReplace = <<>>
    /\ rbFirst = <<>>
    /\ rbCalls = 0
    /\ rbRet = <<>>

\* the thread's locals: the patchers built, the loop index (from 1), the
\* two counters; history: the runs started so far, the patchers whose
\* apply() was called and the patcher whose code raised
RunIdle == [pc |-> "idle", patchers |-> <<>>, i |-> 0, success_count |-> 0,
            total_patches |-> 0, n |-> 0, applied |-> {}, raisedBy |-> "none"]

GuiIdle ==
    /\ run = RunIdle
    /\ button = "normal"
    /\ log = <<>>

ApInit ==
    /\ client \in {NoFile} \cup {File(d) : d \in ClientContents}
    /\ backup = NoFile
    /\ sidecar \in {NoSidecar, OldSidecar}
    /\ cfg \in Configs
    /\ ap = ApIdle
    /\ last = NoCall
    /\ orig = client
    /\ bkFirst = NoFile
    /\ RbIdle
    /\ GuiIdle
    /\ FnIdle

\* patcher.apply() is called and runs until it returns, raises, or has
\* opened the target for writing
CallApply(k) ==
    /\ ap.pc = "idle"
    /\ \E r \in {ApplyStart(k, cfg, client, backup, e) : e \in EnvsFor(k)} :
         LET pre == Snapshot(client, backup, sidecar)
         IN  /\ backup' = r.backup
             /\ IF r.res = "opened"
                THEN /\ client' = File(<<>>)
                     /\ ap' = [pc |-> "opened", kind |-> k, data |-> r.data, pre |-> pre]
                     /\ last' = NoCall
                ELSE /\ client' = client
                     /\ ap' = ApIdle
                     /\ last' = [op |-> "apply", kind |-> k,
                                 valid |-> Validate(k, cfg, client),
                                 ret |-> (r.res = "true"),
                                 raised |-> (r.res = "raise"), pre |-> pre,
                                 post |-> client.data]
    /\ UNCHANGED <<sidecar, cfg, orig, rbVars, fnVars, bkFirst, guiVars>>

\* the apply() in flight writes the target, updates AppSettings.xml and returns
FinishApply ==
    /\ ap.pc = "opened"
    /\ \E writeOk \in BOOLEAN, scOk \in BOOLEAN :
         LET r == ApplyWrite(ap.kind, cfg, client, sidecar, ap.data, writeOk, scOk)
         IN  /\ client' = r.client
             /\ sidecar' = r.sidecar
             /\ last' = [op |-> "apply", kind |-> ap.kind, valid |-> "true",
                         ret |-> r.ret, raised |-> FALSE, pre |-> ap.pre,
                         post |-> ap.data]
    /\ ap' = ApIdle
    /\ UNCHANGED <<backup, cfg, orig, rbVars, fnVars, bkFirst, guiVars>>

\* patcher.restore_from_backup()
CallRestore ==
    /\ ap.pc = "idle"
    /\ \E copy \in CopyOutcomes :
         LET r == RestoreFromBackup(client, backup, copy)
         IN  /\ client' = r.client
             /\ last' = [op |-> "restore", kind |-> "none", valid |-> "none",
                         ret |-> r.ok, raised |-> FALSE,
                         pre |-> Snapshot(client, backup, sidecar), post |-> <<>>]
    /\ UNCHANGED <<backup, sidecar, cfg, ap, orig, rbVars, fnVars, bkFirst, guiVars>>

ApNext ==
    \/ \E k \in PatchTypes : CallApply(k)
    \/ FinishApply
    \/ CallRestore

SpecApply == ApInit /\ [][ApNext]_vars

----------------------------------------------------------------------------
(* The backup routines called on one path while the target is rewritten *)

\* ModernPatcher.create_backup(file_path): raises FileNotFoundError for a
\* missing file (ok FALSE), else copies unless the backup exists
CreateBackup(cl, bk) ==
    IF ~cl.exists THEN [ok |-> FALSE, backup |-> bk]
    ELSE IF ~bk.exists THEN [ok |-> TRUE, backup |-> File(cl.data)]
    ELSE [ok |-> TRUE, backup |-> bk]

\* utils.backup_file(file_path): shutil.copy2 onto file_path + '.backup',
\* None (ok FALSE) when the copy raises
BackupFile(cl, bk) ==
    IF ~cl.exists THEN [ok |-> FALSE, backup |-> bk]
    ELSE [ok |-> TRUE, backup |-> File(cl.data)]

BackupContents == SeqsUpTo(RbAlphabet, MaxBackupLen)

BkInit ==
    /\ client \in {NoFile} \cup {File(d) : d \in BackupContents}
    /\ backup = NoFile
    /\ sidecar = NoSidecar
    /\ cfg \in {c \in Configs : c.website_domain = DomainAscii /\ c.version_year = 2010
                               /\ c.client_type = "PLAYER" /\ c.rbxsigtools_path = ""
                               /\ c.x64dbg_path = ""}
    /\ ap = ApIdle
    /\ last = NoCall
    /\ orig = client
    /\ bkFirst = NoFile
    /\ RbIdle
    /\ GuiIdle
    /\ FnIdle

\* here a copy goes through or is refused, it is never cut short: what is
\* followed is which call writes the backup.
\* the first call that yields a backup fixes bkFirst to the target it found
FirstBackup(r) == IF r.ok /\ ~bkFirst.exists THEN client ELSE bkFirst

CallBackupClient ==
    /\ \E copy \in {"ok", "refused"} :
         LET r == BackupClient(client, backup, copy)
         IN  backup' = r.backup /\ bkFirst' = FirstBackup(r)
    /\ UNCHANGED <<client, sidecar, cfg, callVars, rbVars, fnVars, guiVars>>

CallCreateBackup ==
    /\ LET r == CreateBackup(client, backup)
       IN  backup' = r.backup /\ bkFirst' = FirstBackup(r)
    /\ UNCHANGED <<client, sidecar, cfg, callVars, rbVars, fnVars, guiVars>>

CallBackupFile ==
    /\ LET r == BackupFile(client, backup)
       IN  backup' = r.backup /\ bkFirst' = FirstBackup(r)
    /\ UNCHANGED <<client, sidecar, cfg, callVars, rbVars, fnVars, guiVars>>

\* the target is rewritten (a patch, an editor, the debugger's "patch file")
MutateTarget ==
    /\ client.exists
    /\ \E d \in BackupContents : d # client.data /\ client' = File(d)
    /\ UNCHANGED <<backup, sidecar, cfg, callVars, bkFirst, rbVars, fnVars, guiVars>>

BkNext ==
    \/ CallBackupClient
    \/ CallCreateBackup
    \/ CallBackupFile
    \/ MutateTarget

SpecBackup == BkInit /\ [][BkNext]_vars

----------------------------------------------------------------------------
(* The patch panel: _apply_patches, its background thread, and the main    *)
(* window's restore                                                         *)

\* the order in which _apply_patches_thread builds the patchers
PatcherOrder == <<"WEBSITE", "PUBLIC_KEY", "BLOCKING", "INVALID_REQUEST",
                  "TRUST_CHECK", "RATNET_KEY", "HTML_SERVICE">>

InPatches(patches, k) == k \in patches

BuildPatchers(patches) == SelectSeq(PatcherOrder, LAMBDA k : InPatches(patches, k))

\* one _update_status message
Status(kind, what, n, m) == [kind |-> kind, what |-> what, n |-> n, m |-> m]

\* the configurations the runs are started with
GuiConfigs ==
    [client_path : {"client.exe"}, website_domain : {DomainAscii, DomainShort},
     version_year : Years, client_type : ClientTypesDrawn,
     patches : {P \in SUBSET PatchTypes : Cardinality(P) \in 1..MaxSelected},
     rbxsigtools_path : {"RbxSigTools", "unstatable"},
     x64dbg_path : {"x64dbg.exe", "unstatable"}]

\* in a run the disk is taken to work: copies and writes go through, only
\* KeyGenerator.exe may fail or leave no key
EnvsWorkingDisk ==
    {e \in Envs : e.copy = "ok" /\ e.openOk /\ e.keyFile # File(KeyFile2)}

GuiEnvs(k) == EnvsFor(k) \cap EnvsWorkingDisk

Init ==
    /\ client = File(Content3)
    /\ backup = NoFile
    /\ sidecar = NoSidecar
    /\ cfg \in GuiConfigs
    /\ ap = ApIdle
    /\ last = NoCall
    /\ orig = client
    /\ bkFirst = NoFile
    /\ RbIdle
    /\ GuiIdle
    /\ FnIdle

\* PatchPanel._apply_patches with the user confirming: the button is
\* disabled and the thread started
StartRun ==
    /\ button = "normal"
    /\ run.n < MaxRuns
    /\ cfg.patches # {}
    /\ button' = "disabled"
    /\ run' = [RunIdle EXCEPT !.pc = "construct", !.n = run.n + 1]
    /\ log' = <<>>
    /\ UNCHANGED <<fsVars, cfg, callVars, bkFirst, rbVars, fnVars>>

\* the thread builds the patchers of the selected patches
ThreadConstruct ==
    /\ run.pc = "construct"
    /\ run' = [run EXCEPT !.pc = "loop", !.patchers = BuildPatchers(cfg.patches),
                          !.total_patches = Len(BuildPatchers(cfg.patches)),
                          !.success_count = 0, !.i = 1]
    /\ UNCHANGED <<fsVars, cfg, callVars, bkFirst, rbVars, fnVars, button, log>>

\* where the thread goes when validate() or apply() of patcher k raises:
\* the only handler is the one around the whole run
OnRaise(k) == [run EXCEPT !.pc = "except", !.raisedBy = k]

\* one turn of the loop up to patcher.validate()
ThreadValidate ==
    /\ run.pc = "loop"
    /\ run.i <= run.total_patches
    /\ LET k == run.patchers[run.i]
           v == Validate(k, cfg, client)
       IN  IF v = "raise"
           THEN /\ run' = OnRaise(k)
                /\ log' = Append(log, Status(k, "applying", 0, 0))
           ELSE IF v = "false"
           THEN /\ run' = [run EXCEPT !.i = run.i + 1]
                /\ log' = log \o <<Status(k, "applying", 0, 0),
                                   Status(k, "validation_failed", 0, 0)>>
           ELSE /\ run' = [run EXCEPT !.pc = "apply"]
                /\ log' = Append(log, Status(k, "applying", 0, 0))
    /\ UNCHANGED <<fsVars, cfg, callVars, bkFirst, rbVars, fnVars, button>>

\* the loop's bookkeeping once apply() has returned ret
AfterApply(k, ret) ==
    /\ run' = [run EXCEPT !.pc = "loop", !.i = run.i + 1,
                          !.applied = run.applied \cup {k},
                          !.success_count = IF ret THEN run.success_count + 1
                                            ELSE run.success_count]
    /\ log' = Append(log, Status(k, IF ret THEN "applied" ELSE "failed", 0, 0))

\* patcher.apply() up to its return or to the target being open for writing
ThreadApply ==
    /\ run.pc = "apply"
    /\ LET k == run.patchers[run.i]
       IN  \E e \in GuiEnvs(k) :
             LET r == ApplyStart(k, cfg, client, backup, e)
             IN  /\ backup' = r.backup
                 /\ IF r.res = "opened"
                    THEN /\ client' = File(<<>>)
                         /\ ap' = [pc |-> "opened", kind |-> k, data |-> r.data,
                                   pre |-> Snapshot(client, backup, sidecar)]
                         /\ run' = [run EXCEPT !.pc = "opened",
                                               !.applied = run.applied \cup {k}]
                         /\ log' = log
                    ELSE IF r.res = "raise"
                    THEN /\ run' = [OnRaise(k) EXCEPT !.applied = run.applied \cup {k}]
                         /\ UNCHANGED <<client, ap, log>>
                    ELSE /\ AfterApply(k, r.res = "true")
                         /\ UNCHANGED <<client, ap>>
    /\ UNCHANGED <<sidecar, cfg, last, orig, bkFirst, rbVars, fnVars, button>>

\* the rest of apply(): the write, AppSettings.xml, the return
ThreadWrite ==
    /\ run.pc = "opened"
    /\ LET r == ApplyWrite(ap.kind, cfg, client, sidecar, ap.data, TRUE, TRUE)
       IN  /\ client' = r.client
           /\ sidecar' = r.sidecar
           /\ AfterApply(ap.kind, r.ret)
    /\ ap' = ApIdle
    /\ UNCHANGED <<backup, cfg, last, orig, bkFirst, rbVars, fnVars, button>>

\* the loop is over: the final status
ThreadSummary ==
    /\ run.pc = "loop"
    /\ run.i > run.total_patches
    /\ log' = Append(log, Status("summary",
                                 IF run.success_count = run.total_patches
                                 THEN "all_applied" ELSE "some_failures",
                                 run.success_count, run.total_patches))
    /\ run' = [run EXCEPT !.pc = "finally"]
    /\ UNCHANGED <<fsVars, cfg, callVars, bkFirst, rbVars, fnVars, button>>

\* mutant: the handler ends the thread, the button left as it is
ThreadExceptEnds ==
    /\ run.pc = "except"
    /\ log' = Append(log, Status("error", "error", 0, 0))
    /\ run' = [run EXCEPT !.pc = "done"]
    /\ UNCHANGED <<fsVars, cfg, callVars, bkFirst, rbVars, fnVars, button>>

\* except Exception around the whole run: the error status
ThreadExcept ==
    /\ run.pc = "except"
    /\ log' = Append(log, Status("error", "error", 0, 0))
    /\ run' = [run EXCEPT !.pc = "finally"]
    /\ UNCHANGED <<fsVars, cfg, callVars, bkFirst, rbVars, fnVars, button>>

\* finally: the button is enabled again and the thread ends
ThreadFinally ==
    /\ run.pc = "finally"
    /\ button' = "normal"
    /\ run' = [run EXCEPT !.pc = "done"]
    /\ UNCHANGED <<fsVars, cfg, callVars, bkFirst, rbVars, fnVars, log>>

\* MainWindow._restore_backup with the user confirming
RestoreBackup ==
    /\ backup.exists
    /\ client' = RestoreFromBackup(client, backup, "ok").client
    /\ UNCHANGED <<backup, sidecar, cfg, callVars, bkFirst, rbVars, fnVars, guiVars>>

Next ==
    \/ StartRun
    \/ ThreadConstruct
    \/ ThreadValidate
    \/ ThreadApply
    \/ ThreadWrite
    \/ ThreadSummary
    \/ ThreadExcept
    \/ ThreadFinally
    \/ RestoreBackup

Spec == Init /\ [][Next]_vars

\* a step of the background thread; its last one stands for the callback
\* the finally block posts with root.after(0, ...) as well
ThreadStep ==
    \/ ThreadConstruct
    \/ ThreadValidate
    \/ ThreadApply
    \/ ThreadWrite
    \/ ThreadSummary
    \/ ThreadExcept
    \/ ThreadFinally

\* the same with the thread of a run scheduled until it ends (every
\* validate() and apply() returns or raises) and the Tk main loop running
SpecLive == Spec /\ WF_vars(ThreadStep)

----------------------------------------------------------------------------
(* The user at the window while the panel's thread may be running *)

\* _update_patch_availability on the config: RATNET_KEY is taken out of the
\* patches unless the client is an RCCService, HTML_SERVICE unless the year
\* is 2008
AvailablePatches(c) ==
    (c.patches \ (IF c.client_type # "RCC_SERVICE" THEN {"RATNET_KEY"} ELSE {}))
        \ (IF c.version_year # 2008 THEN {"HTML_SERVICE"} ELSE {})

\* MainWindow._update_config_from_ui after the domain field was edited: the
\* PatchConfig object, which the panel and its patchers share, is written
\* in place and handed to PatchPanel.update_config
UiEditDomain ==
    /\ \E d \in {DomainAscii, DomainShort} :
         /\ d # cfg.website_domain
         /\ cfg' = [cfg EXCEPT !.website_domain = d, !.patches = AvailablePatches(cfg)]
    /\ UNCHANGED <<fsVars, callVars, bkFirst, rbVars, fnVars, guiVars>>

\* the checkboxes the user clicks
Clicked == {"WEBSITE", "PUBLIC_KEY", "BLOCKING"}

\* a checkbox is clicked: _update_config_patches clears config.patches in
\* place and fills it from the checkboxes
UiTogglePatch ==
    /\ \E k \in Clicked :
         cfg' = [cfg EXCEPT !.patches = IF k \in cfg.patches THEN cfg.patches \ {k}
                                        ELSE cfg.patches \cup {k}]
    /\ UNCHANGED <<fsVars, callVars, bkFirst, rbVars, fnVars, guiVars>>

EditNext ==
    \/ Next
    \/ UiEditDomain
    \/ UiTogglePatch

\* a player of 2010 with the debugger in place and some of the clicked
\* patches selected
EditInit ==
    /\ Init
    /\ cfg.patches \subseteq Clicked
    /\ cfg.version_year = 2010
    /\ cfg.client_type = "PLAYER"
    /\ cfg.x64dbg_path = "x64dbg.exe"

SpecEdit == EditInit /\ [][EditNext]_vars

----------------------------------------------------------------------------
(* DeployDownloader: download_deploy_history, download_by_year and        *)
(* download_range, in deploy_downloader.py and in client_downloader.py    *)

MaxLogLines == 2

MaxVersions == 2

\* text as ASCII codes
Digit == 48..57

\* a < b as Python compares two str
RECURSIVE StrLess(_, _)
StrLess(a, b) ==
    IF b = <<>> THEN FALSE
    ELSE IF a = <<>> THEN TRUE
    ELSE IF Head(a) # Head(b) THEN Head(a) < Head(b)
    ELSE StrLess(Tail(a), Tail(b))

\* the text cut into runs of digits and single other characters
RECURSIVE Tokens(_)
Tokens(text) ==
    IF text = <<>> THEN <<>>
    ELSE LET rest == Tokens(Tail(text))
         IN  IF /\ Head(text) \in Digit
                /\ rest # <<>>
                /\ Head(Head(rest)) \in Digit
             THEN <<(<<Head(text)>> \o Head(rest))>> \o Tail(rest)
             ELSE <<(<<Head(text)>>)>> \o rest

\* int() of a run of digits
RECURSIVE ToInt(_)
ToInt(ds) == IF ds = <<>> THEN 0 ELSE 10 * ToInt(SubSeq(ds, 1, Len(ds) - 1)) + (ds[Len(ds)] - 48)

IsNum(tok, widths, lo, hi) ==
    /\ Len(tok) \in widths
    /\ \A i \in 1..Len(tok) : tok[i] \in Digit
    /\ ToInt(tok) \in lo..hi

\* datetime.strptime(text, '%Y-%m-%d %H:%M:%S'): ok FALSE is ValueError.
\* %Y takes four digits, the other fields one or two
Strptime(text) ==
    LET k == Tokens(text)
    IN  IF /\ Len(k) = 11
           /\ IsNum(k[1], {4}, 1, 9999)
           /\ k[2] = <<45>> /\ IsNum(k[3], {1, 2}, 1, 12)
           /\ k[4] = <<45>> /\ IsNum(k[5], {1, 2}, 1, 31)
           /\ k[6] = <<32>> /\ IsNum(k[7], {1, 2}, 0, 23)
           /\ k[8] = <<58>> /\ IsNum(k[9], {1, 2}, 0, 59)
           /\ k[10] = <<58>> /\ IsNum(k[11], {1, 2}, 0, 61)
        THEN [ok |-> TRUE, year |-> ToInt(k[1]),
              when |-> <<ToInt(k[1]), ToInt(k[3]), ToInt(k[5]),
                         ToInt(k[7]), ToInt(k[9]), ToInt(k[11])>>]
        ELSE [ok |-> FALSE, year |-> 0, when |-> <<>>]

\* re.search(r'20\d\d', text): the year of the first match, 0 for no match
RECURSIVE SearchYear(_)
SearchYear(text) ==
    IF Len(text) < 4 THEN 0
    ELSE IF /\ text[1] = 50 /\ text[2] = 48
            /\ text[3] \in Digit /\ text[4] \in Digit
         THEN ToInt(SubSeq(text, 1, 4))
    ELSE SearchYear(Tail(text))

\* the timestamps found in the log
Ts ==
    [jan15 |->   (* '2015-01-01 00:00:00' *)
         <<50, 48, 49, 53, 45, 48, 49, 45, 48, 49, 32, 48, 48, 58, 48, 48, 58, 48, 48>>,
     jun15 |->   (* '2015-06-01 00:00:00' *)
         <<50, 48, 49, 53, 45, 48, 54, 45, 48, 49, 32, 48, 48, 58, 48, 48, 58, 48, 48>>,
     jan14 |->   (* '2014-01-01 00:00:00' *)
         <<50, 48, 49, 52, 45, 48, 49, 45, 48, 49, 32, 48, 48, 58, 48, 48, 58, 48, 48>>,
     oct15 |->   (* '2015-10-01 00:00:00' *)
         <<50, 48, 49, 53, 45, 49, 48, 45, 48, 49, 32, 48, 48, 58, 48, 48, 58, 48, 48>>,
     sep15 |->   (* '2015-9-01 00:00:00' *)
         <<50, 48, 49, 53, 45, 57, 45, 48, 49, 32, 48, 48, 58, 48, 48, 58, 48, 48>>,
     slash |->   (* '2015/01/01 00:00:00' *)
         <<50, 48, 49, 53, 47, 48, 49, 47, 48, 49, 32, 48, 48, 58, 48, 48, 58, 48, 48>>,
     word |->   (* 'yesterday' *)
         <<121, 101, 115, 116, 101, 114, 100, 97, 121>>]

\* a line of DeployHistory.txt as line.split(',') returns it, each part
\* stripped: a hash and a timestamp, a header line, or a line without a
\* comma
LogLines ==
    {<<"version-a1", Ts.jan15>>, <<"version-b2", Ts.jun15>>, <<"version-c3", Ts.jan14>>,
     <<"version-d4", Ts.oct15>>, <<"version-e5", Ts.sep15>>, <<"version-f6", Ts.word>>,
     <<"version-a7", Ts.slash>>, <<"file", Ts.jan15>>, <<"file">>,
     <<"version-XYZ", Ts.jun15>>}

Logs == UNION {[1..n -> LogLines] : n \in 0..MaxLogLines}

\* re.search(r'version-([0-9a-f]+)', hash).group(1), for the hashes above
VersionId(hash) ==
    CASE hash = "version-a1" -> "a1"
      [] hash = "version-b2" -> "b2"
      [] hash = "version-c3" -> "c3"
      [] hash = "version-d4" -> "d4"
      [] hash = "version-e5" -> "e5"
      [] hash = "version-f6" -> "f6"
      [] hash = "version-a7" -> "a7"
      [] OTHER -> "None"

Version(line, year) ==
    [hash |-> line[1], timestamp |-> line[2], version_id |-> VersionId(line[1]),
     year |-> year]

\* deploy_downloader.py: the loop over the lines; any exception leaves the
\* function through its only handler, which returns []
RECURSIVE ParseDeploy(_)
ParseDeploy(lines) ==
    IF lines = <<>> THEN [ok |-> TRUE, versions |-> <<>>]
    ELSE LET line == Head(lines)
             rest == ParseDeploy(Tail(lines))
         IN  IF Len(line) < 2 THEN rest
             ELSE IF ~Strptime(line[2]).ok THEN [ok |-> FALSE, versions |-> <<>>]
             ELSE IF ~rest.ok THEN rest
             ELSE [ok |-> TRUE,
                   versions |-> <<Version(line, Strptime(line[2]).year)>> \o rest.versions]

\* client_downloader.py: a try around each line, header lines skipped, and
\* a year searched in a timestamp that strptime rejects
RECURSIVE ParseClient(_)
ParseClient(lines) ==
    IF lines = <<>> THEN <<>>
    ELSE LET line == Head(lines)
             rest == ParseClient(Tail(lines))
             year == IF Strptime(line[2]).ok THEN Strptime(line[2]).year
                     ELSE SearchYear(line[2])
         IN  IF Len(line) < 2 THEN rest
             ELSE IF line[1] = "file" THEN rest
             ELSE IF \A i \in 1..Len(line[2]) : line[2][i] # 58 THEN rest
             ELSE IF year = 0 THEN rest
             ELSE <<Version(line, year)>> \o rest

\* download_deploy_history() of the two files
DownloadDeployHistory(variant, lines) ==
    IF variant = "deploy_downloader" THEN ParseDeploy(lines).versions
    ELSE ParseClient(lines)

\* list.sort(key=timestamp, reverse=True): descending, and stable, records
\* with equal keys stay in the order they had
RECURSIVE InsertDesc(_, _)
InsertDesc(sorted, v) ==
    IF sorted = <<>> THEN <<v>>
    ELSE IF StrLess(Head(sorted).timestamp, v.timestamp) THEN <<v>> \o sorted
    ELSE <<Head(sorted)>> \o InsertDesc(Tail(sorted), v)

RECURSIVE SortDesc(_)
SortDesc(vs) ==
    IF vs = <<>> THEN <<>>
    ELSE InsertDesc(SortDesc(SubSeq(vs, 1, Len(vs) - 1)), vs[Len(vs)])

\* download_by_year up to selected_versions
SelectByYear(versions, year, max_versions) ==
    LET year_versions == SelectSeq(versions, LAMBDA v : v.year = year)
        sorted == SortDesc(year_versions)
    IN  SubSeq(sorted, 1, IF max_versions < Len(sorted) THEN max_versions ELSE Len(sorted))

\* the results dict of download_by_year, every download_client succeeding:
\* the keys '{client_type}_{year}_{version_id}' with the hash downloaded
\* under each, a later download replacing an earlier one under the same key
ResultsOf(selected) ==
    {[year |-> selected[i].year, version_id |-> selected[i].version_id,
      hash |-> selected[i].hash] :
        i \in {k \in 1..Len(selected) :
                 \A j \in (k + 1)..Len(selected) :
                     selected[j].version_id # selected[k].version_id}}

\* download_range: for year in range(start_year, end_year + 1)
DownloadRange(versions, start_year, end_year, max_versions) ==
    UNION {ResultsOf(SelectByYear(versions, y, max_versions)) : y \in start_year..end_year}

\* main() with --range: the two years swapped when out of order
MainRange(versions, start_year, end_year, max_versions) ==
    IF start_year > end_year
    THEN DownloadRange(versions, end_year, start_year, max_versions)
    ELSE DownloadRange(versions, start_year, end_year, max_versions)

DlYears == 2014..2016

DlVariants == {"deploy_downloader", "client_downloader"}

DlCall(op, a, b, m, versions, selected, results) ==
    [dl EXCEPT !.op = op, !.a = a, !.b = b, !.max = m, !.versions = versions,
               !.selected = selected, !.results = results]

DlInit ==
    /\ dl \in [log : Logs, variant : DlVariants, op : {"none"}, a : {0}, b : {0},
               max : {0}, versions : {<<>>}, selected : {<<>>}, results : {{}}]
    /\ client = NoFile
    /\ backup = NoFile
    /\ sidecar = NoSidecar
    /\ cfg = [patches |-> {}]
    /\ ap = ApIdle
    /\ last = NoCall
    /\ orig = NoFile
    /\ bkFirst = NoFile
    /\ RbIdle
    /\ GuiIdle
    /\ det = "unused"
    /\ rt = "unused"
    /\ ObjIdle

DlFrame == UNCHANGED <<rbVars, fsVars, cfg, callVars, bkFirst, guiVars, det, rt, objVars>>

\* each call fetches the log anew and keeps nothing for the next: one call
\* in a behaviour
DlFresh == dl.op = "none"

\* download_deploy_history()
CallDownloadDeployHistory ==
    /\ DlFresh
    /\ dl' = DlCall("history", 0, 0, 0, DownloadDeployHistory(dl.variant, dl.log), <<>>, {})
    /\ DlFrame

\* download_by_year(year, max_versions=m)
CallDownloadByYear ==
    /\ DlFresh
    /\ \E year \in DlYears, m \in 0..MaxVersions :
         LET versions == DownloadDeployHistory(dl.variant, dl.log)
             selected == SelectByYear(versions, year, m)
         IN  dl' = DlCall("by_year", year, year, m, versions, selected, ResultsOf(selected))
    /\ DlFrame

\* download_range(start_year, end_year, max_versions_per_year=m)
CallDownloadRange ==
    /\ DlFresh
    /\ \E a \in DlYears, b \in DlYears, m \in 0..MaxVersions :
         LET versions == DownloadDeployHistory(dl.variant, dl.log)
         IN  dl' = DlCall("range", a, b, m, versions, <<>>, DownloadRange(versions, a, b, m))
    /\ DlFrame

\* deploy_downloader.py --range a-b
CallMainRange ==
    /\ DlFresh
    /\ dl.variant = "deploy_downloader"
    /\ \E a \in DlYears, b \in DlYears, m \in 0..MaxVersions :
         LET versions == DownloadDeployHistory(dl.variant, dl.log)
         IN  dl' = DlCall("main_range", a, b, m, versions, <<>>, MainRange(versions, a, b, m))
    /\ DlFrame

DlNext ==
    \/ CallDownloadDeployHistory
    \/ CallDownloadByYear
    \/ CallDownloadRange
    \/ CallMainRange

SpecDeploy == DlInit /\ [][DlNext]_vars

----------------------------------------------------------------------------
(* ModernPatcher.detect_client_type *)

MaxChunks == 3

GAME_LAUNCHER == <<71, 97, 109, 101, 76, 97, 117, 110, 99, 104, 101, 114>>   \* b"GameLauncher"

HTTP_RBX_API_SERVICE == <<72, 116, 116, 112, 82, 98, 120, 65, 112, 105, 83, 101, 114, 118, 105, 99, 101>>   \* b"HttpRbxApiService"

\* pieces an executable is put together from: the two markers, a marker cut
\* short, a marker in lower case, and a NUL byte
Chunks ==
    {GAME_LAUNCHER, HTTP_RBX_API_SERVICE,
     <<71, 97, 109, 101, 76, 97, 117, 110, 99, 104, 101>>,   \* b"GameLaunche"
     <<104, 116, 116, 112, 114, 98, 120, 97, 112, 105, 115, 101, 114, 118, 105, 99, 101>>,   \* b"httprbxapiservice"
     <<0>>}

RECURSIVE Concat(_)
Concat(chunks) == IF chunks = <<>> THEN <<>> ELSE Head(chunks) \o Concat(Tail(chunks))

Executables == {Concat(c) : c \in UNION {[1..n -> Chunks] : n \in 0..MaxChunks}}

\* mutant: one marker is enough
DetectEitherMarker(file, openOk) ==
    IF ~file.exists \/ ~openOk THEN "R2018M"
    ELSE IF Contains(file.data, GAME_LAUNCHER) \/ Contains(file.data, HTTP_RBX_API_SERVICE)
         THEN "R2019_2021"
    ELSE "R2018M"

\* the value detect_client_type() returns for the file at client_path;
\* openOk FALSE is open() or read() raising on an existing file
DetectClientType(file, openOk) ==
    IF ~file.exists \/ ~openOk THEN "R2018M"
    ELSE IF Contains(file.data, GAME_LAUNCHER) /\ Contains(file.data, HTTP_RBX_API_SERVICE)
         THEN "R2019_2021"
    ELSE "R2018M"

DetInit ==
    /\ det \in [file : {NoFile} \cup {File(d) : d \in Executables}, openOk : BOOLEAN,
                op : {"none"}, ret : {"none"}]
    /\ client = NoFile
    /\ backup = NoFile
    /\ sidecar = NoSidecar
    /\ cfg = [patches |-> {}]
    /\ ap = ApIdle
    /\ last = NoCall
    /\ orig = NoFile
    /\ bkFirst = NoFile
    /\ RbIdle
    /\ GuiIdle
    /\ dl = "unused"
    /\ rt = "unused"
    /\ ObjIdle

\* detect_client_type()
CallDetect ==
    /\ det.op = "none"
    /\ det' = [det EXCEPT !.op = "detect", !.ret = DetectClientType(det.file, det.openOk)]
    /\ UNCHANGED <<rbVars, fsVars, cfg, callVars, bkFirst, guiVars, dl, rt, objVars>>

DetNext == CallDetect

SpecDetect == DetInit /\ [][DetNext]_vars

----------------------------------------------------------------------------
(* PatchConfig.to_dict and PatchConfig.from_dict *)

MaxPatches == 2

\* the members of the two enums are their auto() values; .name of a member
\* is the entry of these tables at its value
ClientTypeNames == <<"PLAYER", "STUDIO", "RCC_SERVICE">>

PatchTypeNames ==
    <<"WEBSITE", "PUBLIC_KEY", "BLOCKING", "INVALID_REQUEST", "TRUST_CHECK",
      "RATNET_KEY", "HTML_SERVICE">>

\* Enum[name]
Member(names, name) == CHOOSE v \in 1..Len(names) : names[v] = name

\* PatchConfig(): the defaults of the dataclass
DefaultConfig ==
    [client_path |-> "", website_domain |-> "", version_year |-> 2010,
     client_type |-> Member(ClientTypeNames, "PLAYER"), patches |-> {},
     rbxsigtools_path |-> "", x64dbg_path |-> ""]

\* the configurations the program holds: patches is always a set
PatchConfigs ==
    [client_path : {"", "C:/Roblox/RobloxApp.exe"},
     website_domain : {"", "mysite.xyz"},
     version_year : {2008, 2010},
     client_type : 1..Len(ClientTypeNames),
     patches : {ps \in SUBSET (1..Len(PatchTypeNames)) : Cardinality(ps) <= MaxPatches},
     rbxsigtools_path : {"", "C:/tools/rbxsigtools"},
     x64dbg_path : {"", "C:/tools/x64dbg"}]

\* the orders in which iterating over the set ps can give its members
Orders(ps) == {o \in [1..Cardinality(ps) -> ps] : \A p \in ps : \E i \in DOMAIN o : o[i] = p}

\* to_dict(), the set of patches iterated in the order `order`
ToDict(c, order) ==
    [c EXCEPT !.client_type = ClientTypeNames[c.client_type],
              !.patches = [i \in DOMAIN order |-> PatchTypeNames[order[i]]]]

\* data.get(key, default)
Get(data, key, default) == IF key \in DOMAIN data THEN data[key] ELSE default

\* mutant: the two tool paths are not read back
FromDictWithoutTools(data) ==
    LET patches_list == Get(data, "patches", <<>>)
    IN  [DefaultConfig EXCEPT
            !.client_path = Get(data, "client_path", ""),
            !.website_domain = Get(data, "website_domain", ""),
            !.version_year = Get(data, "version_year", 2010),
            !.client_type = Member(ClientTypeNames, Get(data, "client_type", "PLAYER")),
            !.patches = {Member(PatchTypeNames, patches_list[i]) : i \in DOMAIN patches_list}]

\* from_dict(data)
FromDict(data) ==
    LET patches_list == Get(data, "patches", <<>>)
    IN  [DefaultConfig EXCEPT
            !.client_path = Get(data, "client_path", ""),
            !.website_domain = Get(data, "website_domain", ""),
            !.version_year = Get(data, "version_year", 2010),
            !.client_type = Member(ClientTypeNames, Get(data, "client_type", "PLAYER")),
            !.patches = {Member(PatchTypeNames, patches_list[i]) : i \in DOMAIN patches_list},
            !.rbxsigtools_path = Get(data, "rbxsigtools_path", ""),
            !.x64dbg_path = Get(data, "x64dbg_path", "")]

RtInit ==
    /\ rt \in [config : PatchConfigs, op : {"none"}, data : {<<>>}, back : {DefaultConfig}]
    /\ client = NoFile
    /\ backup = NoFile
    /\ sidecar = NoSidecar
    /\ cfg = [patches |-> {}]
    /\ ap = ApIdle
    /\ last = NoCall
    /\ orig = NoFile
    /\ bkFirst = NoFile
    /\ RbIdle
    /\ GuiIdle
    /\ dl = "unused"
    /\ det = "unused"
    /\ ObjIdle

\* PatchConfig.from_dict(config.to_dict())
CallRoundTrip ==
    /\ rt.op = "none"
    /\ \E order \in Orders(rt.config.patches) :
         LET data == ToDict(rt.config, order)
         IN  rt' = [rt EXCEPT !.op = "round_trip", !.data = data, !.back = FromDict(data)]
    /\ UNCHANGED <<rbVars, fsVars, cfg, callVars, bkFirst, guiVars, dl, det, objVars>>

RtNext == CallRoundTrip

SpecConfig == RtInit /\ [][RtNext]_vars

----------------------------------------------------------------------------
(* ModernPatcher.__init__ and _validate_domain *)

MaxDomainLen == 11

\* the domain strings passed: letters 'a' and dots
DomainsPassed == UNION {[1..n -> {97, 46}] : n \in 0..MaxDomainLen}

Dots(n) == [i \in 1..n |-> 46]

\* _validate_domain(domain) on an object that has the attributes in
\* `attrs`: self.logger is read for every domain that is not 10 long
ValidateDomain(domain, attrs) ==
    IF Len(domain) # DomainLen
    THEN IF "logger" \notin attrs
         THEN [raised |-> "AttributeError", domain |-> <<>>]
         ELSE IF Len(domain) < DomainLen
              THEN [raised |-> "none", domain |-> domain \o Dots(DomainLen - Len(domain))]
         ELSE [raised |-> "none", domain |-> SubSeq(domain, 1, DomainLen)]
    ELSE [raised |-> "none", domain |-> domain]

\* ModernPatcher(client_path, domain=domain): self.domain is assigned when
\* the object has only client_path and rcc_path, self.logger after it; then
\* _setup_logging opens modern_patcher.log in output_dir (logFileOk)
ModernPatcher(domain, logFileOk) ==
    LET v == ValidateDomain(domain, {"client_path", "rcc_path"})
    IN  IF v.raised # "none" THEN v
        ELSE IF ~logFileOk THEN [raised |-> "FileNotFoundError", domain |-> <<>>]
        ELSE v

MpInit ==
    /\ mp \in [domain : DomainsPassed, logFileOk : BOOLEAN, op : {"none"},
               raised : {"none"}, self_domain : {<<>>}]
    /\ client = NoFile
    /\ backup = NoFile
    /\ sidecar = NoSidecar
    /\ cfg = [patches |-> {}]
    /\ ap = ApIdle
    /\ last = NoCall
    /\ orig = NoFile
    /\ bkFirst = NoFile
    /\ RbIdle
    /\ GuiIdle
    /\ dl = "unused"
    /\ det = "unused"
    /\ rt = "unused"
    /\ rc = "unused"
    /\ pn = "unused"

\* ModernPatcher(...)
NewModernPatcher ==
    /\ mp.op = "none"
    /\ LET r == ModernPatcher(mp.domain, mp.logFileOk)
       IN  mp' = [mp EXCEPT !.op = "init", !.raised = r.raised, !.self_domain = r.domain]
    /\ UNCHANGED <<rbVars, fsVars, cfg, callVars, bkFirst, guiVars, dl, det, rt, rc, pn>>

SpecModern == MpInit /\ [][NewModernPatcher]_vars

-----------------------------------------------------------------------------
(* PatchPanel: the checkboxes of the patch selection panel *)

\* PatchType.<member>.name, as code points
PatchName(k) ==
    IF k = "WEBSITE" THEN <<87, 69, 66, 83, 73, 84, 69>>
    ELSE IF k = "PUBLIC_KEY" THEN <<80, 85, 66, 76, 73, 67, 95, 75, 69, 89>>
    ELSE IF k = "BLOCKING" THEN <<66, 76, 79, 67, 75, 73, 78, 71>>
    ELSE IF k = "INVALID_REQUEST" THEN <<73, 78, 86, 65, 76, 73, 68, 95, 82, 69, 81, 85, 69, 83, 84>>
    ELSE IF k = "TRUST_CHECK" THEN <<84, 82, 85, 83, 84, 95, 67, 72, 69, 67, 75>>
    ELSE IF k = "RATNET_KEY" THEN <<82, 65, 84, 78, 69, 84, 95, 75, 69, 89>>
    ELSE <<72, 84, 77, 76, 95, 83, 69, 82, 86, 73, 67, 69>>

\* the text each Checkbutton is created with by _setup_ui, as code points:
\* 'Website Patch'
\* 'Public Key Patch'
\* 'Blocking %s Patch (not recommended)'
\* 'Invalid Request Patch (security risk)'
\* 'Trust Check Patch (security risk)'
\* 'Ratnet Key Patch (RCCService only)'
\* 'HtmlService Patch (2008 only)'
CheckboxText(k) ==
    IF k = "WEBSITE"
    THEN <<87, 101, 98, 115, 105, 116, 101, 32, 80, 97, 116, 99, 104>>
    ELSE IF k = "PUBLIC_KEY"
    THEN <<80, 117, 98, 108, 105, 99, 32, 75, 101, 121, 32, 80, 97, 116,
         99, 104>>
    ELSE IF k = "BLOCKING"
    THEN <<66, 108, 111, 99, 107, 105, 110, 103, 32, 37, 115, 32, 80, 97,
         116, 99, 104, 32, 40, 110, 111, 116, 32, 114, 101, 99, 111, 109,
         109, 101, 110, 100, 101, 100, 41>>
    ELSE IF k = "INVALID_REQUEST"
    THEN <<73, 110, 118, 97, 108, 105, 100, 32, 82, 101, 113, 117, 101,
         115, 116, 32, 80, 97, 116, 99, 104, 32, 40, 115, 101, 99, 117,
         114, 105, 116, 121, 32, 114, 105, 115, 107, 41>>
    ELSE IF k = "TRUST_CHECK"
    THEN <<84, 114, 117, 115, 116, 32, 67, 104, 101, 99, 107, 32, 80, 97,
         116, 99, 104, 32, 40, 115, 101, 99, 117, 114, 105, 116, 121, 32,
         114, 105, 115, 107, 41>>
    ELSE IF k = "RATNET_KEY"
    THEN <<82, 97, 116, 110, 101, 116, 32, 75, 101, 121, 32, 80, 97, 116,
         99, 104, 32, 40, 82, 67, 67, 83, 101, 114, 118, 105, 99, 101, 32,
         111, 110, 108, 121, 41>>
    ELSE <<72, 116, 109, 108, 83, 101, 114, 118, 105, 99, 101, 32, 80, 97,
         116, 99, 104, 32, 40, 50, 48, 48, 56, 32, 111, 110, 108, 121,
         41>>

IsUpper(ch) == ch \in 65..90
IsLower(ch) == ch \in 97..122

\* str.replace('_', ' ')
ReplaceUnderscore(s) == [i \in 1..Len(s) |-> IF s[i] = 95 THEN 32 ELSE s[i]]

\* str.title(): a letter that follows a letter is lowercased, any other
\* letter is uppercased
Title(s) ==
    [i \in 1..Len(s) |->
        IF i > 1 /\ (IsUpper(s[i - 1]) \/ IsLower(s[i - 1]))
        THEN IF IsUpper(s[i]) THEN s[i] + 32 ELSE s[i]
        ELSE IF IsLower(s[i]) THEN s[i] - 32 ELSE s[i]]

\* text.startswith(prefix)
StartsWith(text, prefix) ==
    Len(prefix) <= Len(text) /\ SubSeq(text, 1, Len(prefix)) = prefix

\* patch_type.name.replace('_', ' ').title()
PatchDisplayName(k) == Title(ReplaceUnderscore(PatchName(k)))

\* the Checkbuttons (each named by the patch type it was created for) whose
\* text starts with the display name of patch type k
CheckboxesOf(k) ==
    {j \in PatchTypes : StartsWith(CheckboxText(j), PatchDisplayName(k))}

\* _set_patch_enabled(k, enabled): disabled is the set of disabled Checkbuttons
SetPatchEnabled(disabled, k, enabled) ==
    IF enabled THEN disabled \ CheckboxesOf(k) ELSE disabled \cup CheckboxesOf(k)

\* _get_patch_widget_state(k): the state of the first Checkbutton found,
\* "normal" when none is found
GetPatchWidgetState(disabled, k) ==
    IF CheckboxesOf(k) = {} THEN "normal"
    ELSE LET first == CHOOSE i \in 1..Len(PatcherOrder) :
                          /\ PatcherOrder[i] \in CheckboxesOf(k)
                          /\ \A j \in 1..(i - 1) : PatcherOrder[j] \notin CheckboxesOf(k)
         IN  IF PatcherOrder[first] \in disabled THEN "disabled" ELSE "normal"

\* _update_patch_availability(): p.checked is the set of patch types whose
\* BooleanVar is True
UpdatePatchAvailability(p) ==
    LET allOn  == {j \in p.disabled : \A k \in PatchTypes : j \notin CheckboxesOf(k)}
        noRat  == p.client_type # "RCC_SERVICE"
        afterR == IF noRat THEN SetPatchEnabled(allOn, "RATNET_KEY", FALSE) ELSE allOn
        dropR  == IF noRat /\ "RATNET_KEY" \in p.patches THEN {"RATNET_KEY"} ELSE {}
        noHtml == p.version_year # 2008
        afterH == IF noHtml THEN SetPatchEnabled(afterR, "HTML_SERVICE", FALSE) ELSE afterR
        dropH  == IF noHtml /\ "HTML_SERVICE" \in p.patches THEN {"HTML_SERVICE"} ELSE {}
    IN  [p EXCEPT !.disabled = afterH,
                  !.patches = (p.patches \ dropR) \ dropH,
                  !.checked = (p.checked \ dropR) \ dropH]

\* update_config(config)
UpdateConfig(p) == UpdatePatchAvailability([p EXCEPT !.checked = p.patches])

\* _update_config_patches()
UpdateConfigPatches(p) == [p EXCEPT !.patches = p.checked]

\* _select_all_patches()
SelectAllPatches(p) ==
    UpdateConfigPatches(
        [p EXCEPT !.checked = p.checked \cup
            {k \in PatchTypes : GetPatchWidgetState(p.disabled, k) # "disabled"}])

\* _deselect_all_patches()
DeselectAllPatches(p) == UpdateConfigPatches([p EXCEPT !.checked = {}])

\* _select_recommended_patches()
SelectRecommendedPatches(p) ==
    LET recommended ==
            {"WEBSITE", "PUBLIC_KEY"}
            \cup (IF p.version_year = 2008 THEN {"HTML_SERVICE"} ELSE {})
            \cup (IF p.client_type = "RCC_SERVICE" THEN {"RATNET_KEY"} ELSE {})
    IN  UpdateConfigPatches([DeselectAllPatches(p) EXCEPT !.checked = recommended])

\* the panel once PatchPanel(parent, config) has run: _setup_ui ends with
\* update_config(self.config)
PnInit ==
    /\ \E ct \in ClientTypes, y \in Years, ps \in SUBSET PatchTypes :
         pn = UpdateConfig([client_type |-> ct, version_year |-> y, patches |-> ps,
                            checked |-> {}, disabled |-> {}, op |-> "init"])
    /\ client = NoFile
    /\ backup = NoFile
    /\ sidecar = NoSidecar
    /\ cfg = [patches |-> {}]
    /\ ap = ApIdle
    /\ last = NoCall
    /\ orig = NoFile
    /\ bkFirst = NoFile
    /\ RbIdle
    /\ GuiIdle
    /\ dl = "unused"
    /\ det = "unused"
    /\ rt = "unused"
    /\ rc = "unused"
    /\ mp = "unused"

PnFrame == UNCHANGED <<rbVars, fsVars, cfg, callVars, bkFirst, guiVars, dl, det, rt, rc, mp>>

\* the user picks another client type or year in the main window:
\* _update_config_from_ui writes the field and calls update_config
UiEditClient ==
    /\ \E ct \in ClientTypes, y \in Years :
         /\ <<ct, y>> # <<pn.client_type, pn.version_year>>
         /\ pn' = [UpdateConfig([pn EXCEPT !.client_type = ct, !.version_year = y])
                      EXCEPT !.op = "update_config"]
    /\ PnFrame

\* the user clicks a checkbox that is not disabled: Tk flips its variable and
\* runs the command, _update_config_patches
UiClickCheckbox ==
    /\ \E k \in PatchTypes \ pn.disabled :
         pn' = [UpdateConfigPatches(
                    [pn EXCEPT !.checked = IF k \in pn.checked THEN pn.checked \ {k}
                                           ELSE pn.checked \cup {k}])
                  EXCEPT !.op = "toggle"]
    /\ PnFrame

UiSelectAll ==
    /\ pn' = [SelectAllPatches(pn) EXCEPT !.op = "select_all"]
    /\ PnFrame

UiDeselectAll ==
    /\ pn' = [DeselectAllPatches(pn) EXCEPT !.op = "deselect_all"]
    /\ PnFrame

UiSelectRecommended ==
    /\ pn' = [SelectRecommendedPatches(pn) EXCEPT !.op = "select_recommended"]
    /\ PnFrame

PnNext ==
    \/ UiEditClient
    \/ UiClickCheckbox
    \/ UiSelectAll
    \/ UiDeselectAll
    \/ UiSelectRecommended

SpecPanel == PnInit /\ [][PnNext]_vars

-----------------------------------------------------------------------------
(* AppConfig.add_recent_config *)

\* most calls of add_recent_config in a behaviour
MaxAdds == 6

\* the length the list is cut to
MaxRecent == 5

\* the config files the user opens and saves
ConfigPaths == {"a.json", "b.json", "c.json", "d.json", "e.json", "f.json"}

\* list.remove(x): the list without the first x
RemoveFirst(list, x) ==
    LET i == CHOOSE k \in 1..Len(list) :
                 list[k] = x /\ \A j \in 1..(k - 1) : list[j] # x
    IN  SubSeq(list, 1, i - 1) \o SubSeq(list, i + 1, Len(list))

\* mutant: the path is inserted without looking for it in the list
AddRecentConfigAgain(recent_configs, config_path) ==
    LET inserted == <<config_path>> \o recent_configs
    IN  SubSeq(inserted, 1, IF Len(inserted) < MaxRecent THEN Len(inserted) ELSE MaxRecent)

\* add_recent_config(config_path): the list it leaves in self.recent_configs
AddRecentConfig(recent_configs, config_path) ==
    LET removed  == IF \E k \in 1..Len(recent_configs) : recent_configs[k] = config_path
                    THEN RemoveFirst(recent_configs, config_path)
                    ELSE recent_configs
        inserted == <<config_path>> \o removed
    IN  SubSeq(inserted, 1, IF Len(inserted) < MaxRecent THEN Len(inserted) ELSE MaxRecent)

\* a new AppConfig with no recent_configs file: the list is empty; adds is
\* the history of the paths passed to add_recent_config
RcInit ==
    /\ rc = [recent_configs |-> <<>>, adds |-> <<>>, raised |-> FALSE]
    /\ client = NoFile
    /\ backup = NoFile
    /\ sidecar = NoSidecar
    /\ cfg = [patches |-> {}]
    /\ ap = ApIdle
    /\ last = NoCall
    /\ orig = NoFile
    /\ bkFirst = NoFile
    /\ RbIdle
    /\ GuiIdle
    /\ dl = "unused"
    /\ det = "unused"
    /\ rt = "unused"
    /\ mp = "unused"
    /\ pn = "unused"

\* add_recent_config(config_path); save() at its end writes the file or
\* raises, the list being updated by then
CallAddRecentConfig ==
    /\ Len(rc.adds) < MaxAdds
    /\ \E config_path \in ConfigPaths, saveOk \in BOOLEAN :
         rc' = [recent_configs |-> AddRecentConfig(rc.recent_configs, config_path),
                adds |-> Append(rc.adds, config_path),
                raised |-> ~saveOk]
    /\ UNCHANGED <<rbVars, fsVars, cfg, callVars, bkFirst, guiVars, dl, det, rt, mp, pn>>

SpecRecent == RcInit /\ [][CallAddRecentConfig]_vars

----------------------------------------------------------------------------
(* Claims about replace_in_binary, under SpecReplace *)

\* no byte of a occurs in b
NoCommonByte(a, b) == \A i \in 1..Len(a) : \A j \in 1..Len(b) : a[i] # b[j]

\* position i of the file lies in a span where the pattern stood before the
\* first call and the replacement stands now
InRewrittenSpan(i) ==
    \E j \in 1..Len(rbFirst) :
        /\ j <= i
        /\ i < j + Len(rbSearch)
        /\ MatchAt(rbFirst, rbSearch, j)
        /\ MatchAt(rbFile, rbReplace, j)

\* C6: replace_in_binary called with a search pattern and a replacement of
\* different byte lengths returns False every time, whatever the file holds,
\* and the file's bytes stay what they were.
C6_LengthMismatchFails ==
    Len(rbSearch) # Len(rbReplace) =>
        /\ \A i \in 1..Len(rbRet) : rbRet[i] = FALSE
        /\ rbFile = rbFirst

\* C6 happens: a call was made with lengths that differ on a file that holds
\* the search pattern
C6_Witness ==
    /\ Len(rbSearch) # Len(rbReplace)
    /\ rbSearch # <<>>
    /\ Contains(rbFirst, rbSearch)
    /\ rbCalls >= 1

----------------------------------------------------------------------------
(* Claims about the patchers, under SpecApply *)

\* C2: starting from a target with no backup, whatever apply() calls were
\* made and however they ended, a restore_from_backup() that returns True
\* leaves the target with the bytes it had before the first apply(), and
\* leaves the backup file as it found it.
C2_RestoreReverts ==
    (last.op = "restore" /\ last.ret) =>
        /\ client = orig
        /\ backup = last.pre.backup

\* C3: an apply() called while validate() is false returns False and leaves
\* the target, the backup and AppSettings.xml exactly as they were.
C3_InvalidApplyChangesNothing ==
    (last.op = "apply" /\ last.valid = "false") =>
        /\ last.ret = FALSE
        /\ last.raised = FALSE
        /\ Snapshot(client, backup, sidecar) = last.pre

\* C3 happens: Website apply() with a domain that is not 10 characters long,
\* on an existing target that holds the host name and has no backup yet
C3_Witness ==
    /\ last.op = "apply"
    /\ last.kind = "WEBSITE"
    /\ last.valid = "false"
    /\ Len(cfg.website_domain) # DomainLen
    /\ client.exists
    /\ Contains(client.data, ROBLOX_COM)
    /\ ~backup.exists

\* C8: a Website apply() that returns True leaves the target's byte length
\* unchanged.
C8_WebsiteKeepsLength ==
    (last.op = "apply" /\ last.kind = "WEBSITE" /\ last.ret) =>
        Len(client.data) = Len(last.pre.client.data)

\* C9: a PublicKey apply() that returns True leaves the target's byte length
\* unchanged (each key blob is replaced by a key of the blob's length).
C9_PublicKeyKeepsLength ==
    (last.op = "apply" /\ last.kind = "PUBLIC_KEY" /\ last.ret) =>
        Len(client.data) = Len(last.pre.client.data)

\* the content in which every span matching BGIAA[A-Za-z0-9+/=]+ of s, from
\* byte i on, is replaced by one copy of newKey and every other byte is kept
RECURSIVE EachSpanOnce(_, _, _)
EachSpanOnce(s, i, newKey) ==
    IF i > Len(s) THEN <<>>
    ELSE IF /\ MatchAt(s, KEY_PREFIX, i)
            /\ i + Len(KEY_PREFIX) <= Len(s)
            /\ s[i + Len(KEY_PREFIX)] \in Base64Chars
         THEN newKey \o EachSpanOnce(s, RunEnd(s, i + Len(KEY_PREFIX)) + 1, newKey)
    ELSE <<s[i]>> \o EachSpanOnce(s, i + 1, newKey)

\* C26: after PublicKeyPatcher.apply() returned True the target holds the
\* content it had before the call with every span matching the key pattern
\* replaced by exactly one copy of the new key, and every other byte kept.
C26_EachBlobReplacedOnce ==
    (last.op = "apply" /\ last.kind = "PUBLIC_KEY" /\ last.ret) =>
        \E f \in KeyFiles :
            client.data = EachSpanOnce(last.pre.client.data, 1, Encode(Strip(f)))

\* C10: at every moment of an apply() the target holds either its complete
\* content from before the call or the complete content the call writes.
C10_AtomicWrite ==
    /\ ap.pc = "opened" => client.data \in {ap.pre.client.data, ap.data}
    /\ last.op = "apply" => client.data \in {last.pre.client.data, last.post}

\* C18: a Website apply() that returns True on a target holding what one
\* Website apply() makes of the original content leaves those bytes as they
\* are: applying twice gives what applying once gives.
C18_WebsiteIdempotent ==
    (/\ last.op = "apply"
     /\ last.kind = "WEBSITE"
     /\ last.ret
     /\ orig.exists
     /\ last.pre.client.data = WebsiteContent(cfg, orig).data) =>
        client.data = last.pre.client.data

\* C19: a Website apply() on a target in which b'roblox.com' does not occur
\* does not return True.
C19_NoHostNameIsFailure ==
    (/\ last.op = "apply"
     /\ last.kind = "WEBSITE"
     /\ last.pre.client.exists
     /\ ~Contains(last.pre.client.data, ROBLOX_COM)) =>
        ~last.ret

\* C20: when apply() has opened for writing a target that still held its
\* original bytes, the backup exists and holds those bytes.
C20_BackupPrecedesMutation ==
    (ap.pc = "opened" /\ ap.pre.client = orig) =>
        /\ backup.exists
        /\ backup.data = orig.data

\* C22: a RatnetKey apply() on a client that is not an RCCService, and an
\* HtmlService apply() for a year other than 2008, do not return True and
\* leave the backup as it was; either returns True only with a debugger
\* path that is set and exists.
C22_PreconditionGating ==
    (last.op = "apply" /\ last.kind \in {"RATNET_KEY", "HTML_SERVICE"}) =>
        /\ (\/ last.kind = "RATNET_KEY" /\ cfg.client_type # "RCC_SERVICE"
            \/ last.kind = "HTML_SERVICE" /\ cfg.version_year # 2008) =>
               /\ ~last.ret
               /\ backup = last.pre.backup
        /\ last.ret => cfg.x64dbg_path = "x64dbg.exe"

\* C22: RatnetKey apply() was called for a player, with the target and the
\* debugger in place and no backup yet
C22_Witness ==
    /\ last.op = "apply"
    /\ last.kind = "RATNET_KEY"
    /\ cfg.client_type = "PLAYER"
    /\ cfg.x64dbg_path = "x64dbg.exe"
    /\ last.pre.client.exists
    /\ ~last.pre.backup.exists

ManualPatchers == {"BLOCKING", "INVALID_REQUEST", "TRUST_CHECK", "RATNET_KEY", "HTML_SERVICE"}

\* C23: an apply() of one of the five manual-instruction patchers leaves the
\* target as it was; when it returns True the backup exists, and it was
\* there before the call or holds the target's bytes.
C23_ManualPatchersKeepTarget ==
    (last.op = "apply" /\ last.kind \in ManualPatchers) =>
        /\ client = last.pre.client
        /\ last.ret =>
             /\ backup.exists
             /\ last.pre.backup.exists \/ backup.data = client.data

\* C23: a manual-instruction apply() returned True and made the backup
C23_Witness ==
    /\ last.op = "apply"
    /\ last.kind = "BLOCKING"
    /\ last.ret
    /\ ~last.pre.backup.exists
    /\ backup.data = client.data
    /\ client.data # <<>>

\* C24: when a Website apply() has returned True, AppSettings.xml exists and
\* its BaseUrl is 'http://www.' followed by the configured domain; a
\* document that was there before keeps its other elements.
C24_BaseUrlFollowsDomain ==
    (last.op = "apply" /\ last.kind = "WEBSITE" /\ last.ret) =>
        /\ sidecar.exists
        /\ sidecar.hasBaseUrl
        /\ sidecar.baseUrl = HTTP_WWW \o cfg.website_domain
        /\ last.pre.sidecar.exists => sidecar.others = last.pre.sidecar.others

----------------------------------------------------------------------------
(* Claims about the backup routines, under SpecBackup *)

\* C1: whatever backup calls and rewrites of the target follow, the backup
\* file holds the bytes the target had when the first backup call was made:
\* no later call writes it again.
C1_BackupWrittenOnce == bkFirst.exists => backup = bkFirst

----------------------------------------------------------------------------
(* Claims about a patch run, under Spec *)

\* the statuses of patch k in the log that say what
CountOf(k, what) ==
    Cardinality({j \in 1..Len(log) : log[j].kind = k /\ log[j].what = what})

Outcomes == {"validation_failed", "applied", "failed"}

OutcomeCount(k) ==
    Cardinality({j \in 1..Len(log) : log[j].kind = k /\ log[j].what \in Outcomes})

\* C4: when a patch run has ended, every selected patcher was visited exactly
\* once and has exactly one reported outcome (validation failed, applied or
\* failed); a patcher reported as failing validation never had apply() called.
C4_EachSelectedVisitedOnce ==
    run.pc = "done" =>
        \A k \in cfg.patches :
            /\ CountOf(k, "applying") = 1
            /\ OutcomeCount(k) = 1
            /\ (CountOf(k, "validation_failed") = 1 => k \notin run.applied)

\* C5: when a patch run has ended in which one patcher's validate() or apply()
\* raised, that patch is reported as failed and every other selected patcher
\* was still visited and has its outcome.
C5_ErrorContained ==
    (run.pc = "done" /\ run.raisedBy # "none") =>
        /\ CountOf(run.raisedBy, "failed") = 1
        /\ \A k \in cfg.patches : CountOf(k, "applying") = 1 /\ OutcomeCount(k) = 1

\* the positions of the background thread between its start and its end
Running == {"construct", "loop", "apply", "opened", "except", "finally"}

\* C29: the Apply button stays disabled while the thread of a patch run is
\* between its start and its end, and every run that is started ends,
\* whatever its patchers return or raise, with the button enabled again.
C29_RunEndsButtonEnabled ==
    /\ [](run.pc \in Running => button = "disabled")
    /\ (run.pc \in Running) ~> (run.pc = "done" /\ button = "normal")

\* a run whose patcher raised has ended and the button is enabled again
C29_Witness == run.pc = "done" /\ run.raisedBy # "none" /\ button = "normal"

\* C11: while the background thread of a patch run is between its start and
\* its end, no second run starts, and the target's bytes change only in steps
\* of that thread: no restore-from-backup writes the target meanwhile.
C11_WritersSerialized ==
    [][run.pc \in Running =>
          /\ run'.n = run.n
          /\ (client' # client => run' # run)]_vars

\* C17: when a patch run has ended, its summary 'N of M' was reported: M is
\* the number of patches selected, N the number of them whose validate() and
\* apply() both returned True, N <= M, and the summary says that all patches
\* were applied exactly when N = M.
C17_SummaryCounts ==
    run.pc = "done" =>
        \E j \in 1..Len(log) :
            /\ log[j].kind = "summary"
            /\ log[j].m = Cardinality(cfg.patches)
            /\ log[j].n = Cardinality({k \in cfg.patches : CountOf(k, "applied") = 1})
            /\ log[j].n <= log[j].m
            /\ (log[j].what = "all_applied" <=> log[j].n = log[j].m)

----------------------------------------------------------------------------
(* Claims about a patch run with the user at the window, under SpecEdit *)

\* C21: while the background thread of a patch run is between its start and
\* its end, the configuration it builds its patchers from and its patchers
\* read is the one the run was confirmed with: no step changes it.
C21_ConfigFrozenDuringRun == [][run.pc \in Running => cfg' = cfg]_vars

----------------------------------------------------------------------------
(* Claims about the deploy log, under SpecDeploy *)

\* v was deployed before w, for two records whose timestamps are dates
DeployedBefore(v, w) ==
    /\ Strptime(v.timestamp).ok
    /\ Strptime(w.timestamp).ok
    /\ StrLess(Strptime(v.timestamp).when, Strptime(w.timestamp).when)

\* C12: download_by_year(year, max) selects records of that year only, as
\* many as there are up to max, newest first, and leaves out no record of
\* the year that is newer than one it selected; a year without records
\* gives the empty result.
C12_ByYearNewestFirst ==
    dl.op = "by_year" =>
        LET of_year == SelectSeq(dl.versions, LAMBDA v : v.year = dl.a)
            sel == dl.selected
            left_out == {of_year[k] : k \in 1..Len(of_year)} \ {sel[i] : i \in 1..Len(sel)}
        IN  /\ \A i \in 1..Len(sel) : sel[i].year = dl.a
            /\ Len(sel) = IF dl.max < Len(of_year) THEN dl.max ELSE Len(of_year)
            /\ \A i \in 1..Len(sel) : \A j \in (i + 1)..Len(sel) : ~DeployedBefore(sel[i], sel[j])
            /\ \A v \in left_out : \A i \in 1..Len(sel) : ~DeployedBefore(sel[i], v)
            /\ (of_year = <<>> => dl.results = {})

\* C13: download_range(start, end, n) returns what download_range(end,
\* start, n) returns.
C13_RangeBoundsNormalized ==
    dl.op = "range" => dl.results = DownloadRange(dl.versions, dl.b, dl.a, dl.max)

WellFormed(line) == Len(line) >= 2 /\ line[1] # "file" /\ Strptime(line[2]).ok

\* C14: download_deploy_history() yields a record for every version line of
\* the log whose timestamp parses, whatever the other lines are, and none
\* for a line in whose timestamp neither a date nor a year is found.
C14_MalformedLineDroppedAlone ==
    dl.op = "history" =>
        /\ \A i \in 1..Len(dl.log) :
             WellFormed(dl.log[i]) =>
                 \E k \in 1..Len(dl.versions) :
                     /\ dl.versions[k].hash = dl.log[i][1]
                     /\ dl.versions[k].timestamp = dl.log[i][2]
        /\ \A k \in 1..Len(dl.versions) :
             \/ Strptime(dl.versions[k].timestamp).ok
             \/ SearchYear(dl.versions[k].timestamp) # 0

\* C28: download_by_year and download_range, every download succeeding,
\* return an entry for each version they selected: for every year asked for
\* and every version selected in it, some entry of the result holds that
\* version's download.
C28_NoResultLost ==
    dl.op \in {"by_year", "range"} =>
        \A y \in dl.a..dl.b :
            LET selected == SelectByYear(dl.versions, y, dl.max)
            IN  \A i \in 1..Len(selected) :
                    \E r \in dl.results : r.hash = selected[i].hash /\ r.year = y

----------------------------------------------------------------------------
(* Claims about detect_client_type, under SpecDetect *)

\* marker occurs in data, said without the search of the model
Holds(data, marker) ==
    \E i \in 1..Len(data) :
        /\ i + Len(marker) - 1 <= Len(data)
        /\ SubSeq(data, i, i + Len(marker) - 1) = marker

\* C15: detect_client_type() returns R2019_2021 exactly when the file can be
\* read and holds both b"GameLauncher" and b"HttpRbxApiService", and R2018M
\* in every other case, an unreadable file included.
C15_DetectByBothMarkers ==
    det.op = "detect" =>
        /\ det.ret \in {"R2018M", "R2019_2021"}
        /\ det.ret = "R2019_2021" <=>
             /\ det.file.exists
             /\ det.openOk
             /\ Holds(det.file.data, GAME_LAUNCHER)
             /\ Holds(det.file.data, HTTP_RBX_API_SERVICE)

\* C15: a file holding the two markers and something else was classified
C15_Witness ==
    /\ det.op = "detect"
    /\ det.ret = "R2019_2021"
    /\ Len(det.file.data) > Len(GAME_LAUNCHER) + Len(HTTP_RBX_API_SERVICE)

----------------------------------------------------------------------------
(* Claims about PatchConfig, under SpecConfig *)

\* C16: PatchConfig.from_dict(c.to_dict()) equals c, field by field.
C16_RoundTrip == rt.op = "round_trip" => rt.back = rt.config

\* C16: a configuration that differs from the defaults in its client type,
\* its patches and a tool path went through the round trip
C16_Witness ==
    /\ rt.op = "round_trip"
    /\ rt.config.client_type # DefaultConfig.client_type
    /\ Cardinality(rt.config.patches) >= 2
    /\ rt.config.rbxsigtools_path # ""
    /\ rt.data.client_type = "RCC_SERVICE"

----------------------------------------------------------------------------
(* Claims about ModernPatcher(), under SpecModern *)

\* C25: ModernPatcher(domain=d), its log file writable, raises nothing and
\* has a domain of 10 characters: d followed by dots when d is shorter, the
\* first 10 characters of d when it is longer, d itself when it has 10.
C25_DomainNormalized ==
    (mp.op = "init" /\ mp.logFileOk) =>
        /\ mp.raised = "none"
        /\ Len(mp.self_domain) = DomainLen
        /\ \A i \in 1..DomainLen :
             mp.self_domain[i] = IF i <= Len(mp.domain) THEN mp.domain[i] ELSE 46

-----------------------------------------------------------------------------
(* Claims about the patch selection panel, under SpecPanel *)

\* C27: whatever the user did at the panel, config.patches holds RATNET_KEY
\* only when the client type is RCC_SERVICE and HTML_SERVICE only when the
\* year is 2008; otherwise the patch's checkbox is unchecked.
C27_UnavailablePatchesExcluded ==
    /\ pn.client_type # "RCC_SERVICE" =>
         "RATNET_KEY" \notin pn.patches /\ "RATNET_KEY" \notin pn.checked
    /\ pn.version_year # 2008 =>
         "HTML_SERVICE" \notin pn.patches /\ "HTML_SERVICE" \notin pn.checked

-----------------------------------------------------------------------------
(* Claims about the list of recent configurations, under SpecRecent *)

\* the position in the history of the last add_recent_config(path)
LastAdded(path) ==
    CHOOSE k \in 1..Len(rc.adds) :
        rc.adds[k] = path /\ \A j \in (k + 1)..Len(rc.adds) : rc.adds[j] # path

\* C30: after any calls of add_recent_config on an empty list, the list has
\* at most 5 entries, holds no path twice, holds only paths that were added,
\* each entry added more recently than the entries behind it, and the path
\* added last at index 0.
C30_RecentListBounded ==
    LET list == rc.recent_configs
    IN  /\ Len(list) <= MaxRecent
        /\ \A i, j \in 1..Len(list) : i # j => list[i] # list[j]
        /\ \A i \in 1..Len(list) : \E k \in 1..Len(rc.adds) : rc.adds[k] = list[i]
        /\ \A i, j \in 1..Len(list) : i < j => LastAdded(list[i]) > LastAdded(list[j])
        /\ rc.adds # <<>> => list # <<>> /\ list[1] = rc.adds[Len(rc.adds)]

\* six different paths were added one after the other: the list holds the
\* five added last and the first one is gone
C30_Witness ==
    /\ Len(rc.adds) = 6
    /\ \A i, j \in 1..6 : i # j => rc.adds[i] # rc.adds[j]
    /\ Len(rc.recent_configs) = MaxRecent
    /\ \A i \in 1..MaxRecent : rc.recent_configs[i] # rc.adds[1]

====
